---- MODULE Spec2Model ----
(***************************************************************************)
(* EncryptedStorage (src/lib/storage.ts) over window.localStorage, with    *)
(* the AES-GCM encryption service (services/encryption-service.ts).        *)
(*                                                                         *)
(* Strings are sequences of characters (one-element strings); a token such *)
(* as "@edb" or "u1" stands for a run of characters that contains no "_".  *)
(* The medium is a function from storage keys to stored texts.  AES-GCM is *)
(* modelled symbolically: a ciphertext names the key and nonce it was made *)
(* with and its plaintext; bytes that were changed are no ciphertext.      *)
(*                                                                         *)
(* Spec runs the calls of one store one after the other, next to the other *)
(* users of the medium.  SpecBatch runs the set calls of a setMultiple     *)
(* across their suspension points, SpecScan does so for a getAll,          *)
(* SpecStores has several stores on one medium, and SpecReplay has a party *)
(* that copies entries and remembers what set has stored.                  *)
(***************************************************************************)
EXTENDS Integers, Sequences, FiniteSets, TLC

VARIABLES
    medium,   \* window.localStorage: storage key -> stored text
    last,     \* the call that was made last: its arguments and what it returned
    multi,    \* the setMultiple call in flight: its promise and its set calls
    scan,     \* the getAll call in flight: the keys it listed, where it stands
    passed    \* history: the (table, key, value) that set has stored so far

vars == <<medium, last, multi, scan, passed>>

---------------------------------------------------------------------------
(* Bounds of the model *)

\* the most entries the medium holds
MaxEntries == 2

---------------------------------------------------------------------------
(* Strings, table names, record keys *)

Sep == <<"_">>

DefaultPrefix == <<"@edb">>

\* this.prefix of the one store instance (constructed without a prefix)
prefix == DefaultPrefix

\* the key parameter left out by the caller
Undefined == <<"undefined">>

Tables == { <<"a">>, <<"a", "_", "b">> }

\* the keys a caller passes: a key an earlier set returned, a key that
\* contains the separator, and the empty string
Keys == { <<"u1">>, <<"b", "_", "u1">>, << >> }

\* what crypto.randomUUID() can return
UUIDs == { <<"u1">>, <<"u2">> }

KeyArgs == Keys \cup {Undefined}

\* what crypto.getRandomValues(new Uint8Array(12)) can return
Nonces == {1}

\* `${this.prefix}_${String(tableName)}_${key}`
StorageKey(tableName, key) == prefix \o Sep \o tableName \o Sep \o key

\* `${this.prefix}_${String(tableName)}_`
TablePrefix(tableName) == prefix \o Sep \o tableName \o Sep

\* String.prototype.startsWith
startsWith(s, p) == Len(s) >= Len(p) /\ SubSeq(s, 1, Len(p)) = p

\* String.prototype.replace(p, "") with a string pattern: the first
\* occurrence of p is cut out, the rest is kept
replace(s, p) ==
    LET hits == { i \in 1..(Len(s) - Len(p) + 1) : SubSeq(s, i, i + Len(p) - 1) = p }
    IN  IF hits = {} THEN s
        ELSE LET i == CHOOSE j \in hits : \A h \in hits : j <= h
             IN  SubSeq(s, 1, i - 1) \o SubSeq(s, i + Len(p), Len(s))

\* the keys the calls of the model read and remove: every key a record
\* can be stored under
ReadKeys == (Keys \cup UUIDs) \ {<< >>}

\* every storage key a set of the model can write
SKeys == { StorageKey(t, k) : t \in Tables, k \in ReadKeys }

---------------------------------------------------------------------------
(* JavaScript values and JSON *)

Str(s) == [t |-> "string", s |-> s]
NaN == [t |-> "number", s |-> <<"NaN">>]
JsNull == [t |-> "null"]

\* the records a caller stores: { title: ... }; "huge" stands for a string
\* of several hundred thousand characters
Values ==
    { [title |-> Str(<<"m">>)], [title |-> Str(<<"n">>)], [title |-> NaN],
      [title |-> Str(<<"huge">>)] }

EmptyObject == [f \in {} |-> JsNull]

StringifyPrimitive(p) ==
    CASE p.t = "string" -> <<"\"">> \o p.s \o <<"\"">>
      [] p.t = "number" -> IF p.s = <<"NaN">> THEN <<"null">> ELSE p.s
      [] p.t = "null"   -> <<"null">>

\* JSON.stringify of an object
JSONstringify(v) ==
    IF "title" \in DOMAIN v
    THEN <<"{", "title", ":">> \o StringifyPrimitive(v.title) \o <<"}">>
    ELSE <<"{", "}">>

ParsePrimitive(toks) ==
    IF toks = <<"null">> THEN [ok |-> TRUE, value |-> JsNull]
    ELSE IF Len(toks) >= 2 /\ toks[1] = "\"" /\ toks[Len(toks)] = "\""
    THEN [ok |-> TRUE, value |-> Str(SubSeq(toks, 2, Len(toks) - 1))]
    ELSE [ok |-> FALSE]

\* JSON.parse: ok = FALSE is a SyntaxError
JSONparse(text) ==
    IF text = <<"{", "}">> THEN [ok |-> TRUE, value |-> EmptyObject]
    ELSE IF Len(text) >= 5 /\ text[1] = "{" /\ text[2] = "title" /\ text[3] = ":"
            /\ text[Len(text)] = "}"
    THEN LET p == ParsePrimitive(SubSeq(text, 4, Len(text) - 1))
         IN  IF p.ok THEN [ok |-> TRUE, value |-> [title |-> p.value]]
             ELSE [ok |-> FALSE]
    ELSE [ok |-> FALSE]

\* { ...value, key: key }
WithKey(value, key) ==
    [f \in (DOMAIN value) \cup {"key"} |-> IF f = "key" THEN Str(key) ELSE value[f]]

---------------------------------------------------------------------------
(* AESGCMEncryptionService *)

\* the key this store derived from its (secret, salt)
encryptionKey == "K1"

\* crypto.subtle.encrypt: ciphertext and tag
Ciphertext(k, iv, data) == [k |-> k, n |-> iv, pt |-> data]

\* bytes that are the ciphertext and tag of nothing, under any key
Forged == [k |-> "none", n |-> 0, pt |-> << >>]

\* JSON.stringify({ iv: Array.from(iv), data: base64Data })
EnvelopeText(iv, ct) == [kind |-> "json", iv |-> iv, data |-> ct]

\* texts that are no envelope: the empty string, and text that is not JSON
EmptyText == [kind |-> "empty"]
GarbageText == [kind |-> "garbage"]

\* String.fromCharCode(...buffer) takes one argument for every byte of the
\* ciphertext: past the engine's limit on arguments it throws a RangeError
TooLong(data) == \E i \in 1..Len(data) : data[i] = "huge"

\* encrypt as it would be if the failure were swallowed and set's `?? ""`
\* supplied the text to store
encrypt_emptyOnFailure(data, iv) ==
    IF TooLong(data) THEN [ok |-> TRUE, text |-> EmptyText]
    ELSE [ok |-> TRUE, text |-> EnvelopeText(iv, Ciphertext(encryptionKey, iv, data))]

\* encrypt as it would be if it used one fixed nonce instead of the one it
\* drew
encrypt_fixedNonce(data, iv) ==
    IF TooLong(data) THEN [ok |-> FALSE]
    ELSE [ok |-> TRUE, text |-> EnvelopeText(1, Ciphertext(encryptionKey, 1, data))]

\* encrypt as it would be if it fell back to the plaintext when the
\* ciphertext cannot be encoded
encrypt_plaintextOnFailure(data, iv) ==
    IF TooLong(data) THEN [ok |-> TRUE, text |-> [kind |-> "plain", data |-> data]]
    ELSE [ok |-> TRUE, text |-> EnvelopeText(iv, Ciphertext(encryptionKey, iv, data))]

\* encrypt(data): ok = FALSE is a thrown error
encrypt(data, iv) ==
    IF TooLong(data) THEN [ok |-> FALSE]
    ELSE [ok |-> TRUE, text |-> EnvelopeText(iv, Ciphertext(encryptionKey, iv, data))]

\* decrypt(encrypted): ok = FALSE is a thrown error
decrypt(encrypted) ==
    IF encrypted.kind # "json" THEN [ok |-> FALSE]
    ELSE LET ct == encrypted.data
         IN  IF ct.k = encryptionKey /\ ct.n = encrypted.iv
             THEN [ok |-> TRUE, data |-> ct.pt]
             ELSE [ok |-> FALSE]

---------------------------------------------------------------------------
(* window.localStorage *)

NullItem == [kind |-> "null"]

getItem(m, sk) == IF sk \in DOMAIN m THEN m[sk] ELSE NullItem

\* setItem as it would be if it kept the text of an entry that is there
setItem_keepExisting(m, sk, text) ==
    [x \in (DOMAIN m) \cup {sk} |-> IF x \in DOMAIN m THEN m[x] ELSE text]

setItem(m, sk, text) == [x \in (DOMAIN m) \cup {sk} |-> IF x = sk THEN text ELSE m[x]]

removeItem(m, sk) == [x \in (DOMAIN m) \ {sk} |-> m[x]]

\* !item
Falsy(item) == item.kind \in {"null", "empty"}

---------------------------------------------------------------------------
(* EncryptedStorage: what each method computes *)

\* exists(tableName, key)
exists(m, tableName, key) == ~Falsy(getItem(m, StorageKey(tableName, key)))

\* const finalKey = key || crypto.randomUUID()
finalKeyOf(key, uuid) == IF key = Undefined \/ key = << >> THEN uuid ELSE key

\* crypto.randomUUID() is called only when key is falsy
NoDraw == << >>
Draws(key) == IF key = Undefined \/ key = << >> THEN UUIDs ELSE {NoDraw}

\* (await this.exists(tableName, finalKey)) && key == undefined: the call
\* starts over with a new random key
collides(m, tableName, key, finalKey) ==
    exists(m, tableName, finalKey) /\ key = Undefined

\* what get makes of the item it read
decode(item) ==
    IF Falsy(item) THEN [status |-> "ok", result |-> JsNull]
    ELSE LET decryptedValue == decrypt(item)
         IN  IF ~decryptedValue.ok THEN [status |-> "error"]
             ELSE LET parsed == JSONparse(decryptedValue.data)
                  IN  IF ~parsed.ok THEN [status |-> "error"]
                      ELSE [status |-> "ok", result |-> parsed.value]

\* get as it would be if it left the table name out of the storage key
get_withoutTable(m, tableName, key) == decode(getItem(m, prefix \o Sep \o key))

\* get(tableName, key)
get(m, tableName, key) == decode(getItem(m, StorageKey(tableName, key)))

\* Object.keys(localStorage).filter((key) => key.startsWith(...)), as a set
matchingKeys(m, tableName) ==
    { key \in DOMAIN m : startsWith(key, TablePrefix(tableName)) }

\* the loop of getAll over the listed keys, in the order the medium lists them
RECURSIVE getAllLoop(_, _, _, _)
getAllLoop(m, tableName, keys, results) ==
    IF keys = << >> THEN [status |-> "ok", result |-> results]
    ELSE LET key == Head(keys)
             item == getItem(m, key)
         IN  IF Falsy(item) THEN getAllLoop(m, tableName, Tail(keys), results)
             ELSE LET decryptedValue == decrypt(item)
                  IN  IF ~decryptedValue.ok THEN [status |-> "error"]
                      ELSE LET parsed == JSONparse(decryptedValue.data)
                           IN  IF ~parsed.ok THEN [status |-> "error"]
                               ELSE getAllLoop(m, tableName, Tail(keys),
                                        Append(results,
                                               WithKey(parsed.value,
                                                       replace(key, TablePrefix(tableName)))))

\* getAll(tableName); keys is the medium's listing of the matching keys
getAll(m, tableName, keys) == getAllLoop(m, tableName, keys, << >>)

\* the predicates a caller passes to filter
Predicates == {"titleIsM", "titleIsNotM"}

applyPredicate(predicate, item) ==
    IF predicate = "titleIsM"
    THEN "title" \in DOMAIN item /\ item.title = Str(<<"m">>)
    ELSE ~("title" \in DOMAIN item /\ item.title = Str(<<"m">>))

\* Array.prototype.filter
SelectSeq2(s, predicate) ==
    LET Test(item) == applyPredicate(predicate, item) IN SelectSeq(s, Test)

\* filter(tableName, predicate)
filter(m, tableName, keys, predicate) ==
    LET allItems == getAll(m, tableName, keys)
    IN  IF allItems.status # "ok" THEN allItems
        ELSE [status |-> "ok", result |-> SelectSeq2(allItems.result, predicate)]

\* remove(tableName, key)
remove(m, tableName, key) == removeItem(m, StorageKey(tableName, key))

\* the orders in which the medium can list the keys S
Orders(S) ==
    { s \in [1..Cardinality(S) -> S] : \A i, j \in 1..Cardinality(S) : s[i] = s[j] => i = j }

---------------------------------------------------------------------------
(* The calls, one action each *)

\* no setMultiple, no getAll in flight
NoBatch == [status |-> "none"]
NoScan == [pc |-> "none"]

Init ==
    /\ medium = [sk \in {} |-> EmptyText]
    /\ last = [op |-> "init"]
    /\ multi = NoBatch
    /\ scan = NoScan
    /\ passed = {}

\* set(tableName, value, key); uuid is the random key of the call that did
\* not start over
Set(tableName, value, key) ==
    \E uuid \in Draws(key), iv \in Nonces :
        LET finalKey == finalKeyOf(key, uuid)
            encryptedValue == encrypt(JSONstringify(value), iv)
            sk == StorageKey(tableName, finalKey)
        IN  /\ ~collides(medium, tableName, key, finalKey)
            /\ IF encryptedValue.ok
               THEN /\ Cardinality((DOMAIN medium) \cup {sk}) <= MaxEntries
                    /\ medium' = setItem(medium, sk, encryptedValue.text)
                    /\ last' = [op |-> "set", table |-> tableName, key |-> key,
                                value |-> value, status |-> "ok",
                                result |-> WithKey(value, finalKey)]
               ELSE /\ medium' = medium
                    /\ last' = [op |-> "set", table |-> tableName, key |-> key,
                                value |-> value, status |-> "error"]

Exists(tableName, key) ==
    /\ last' = [op |-> "exists", table |-> tableName, key |-> key,
                result |-> exists(medium, tableName, key)]
    /\ UNCHANGED medium

\* a get that drops the entry it cannot decrypt
Get_removingUndecryptable(tableName, key) ==
    /\ last' = [op |-> "get", table |-> tableName, key |-> key,
                ret |-> get(medium, tableName, key)]
    /\ medium' = IF get(medium, tableName, key).status = "error"
                 THEN removeItem(medium, StorageKey(tableName, key))
                 ELSE medium

Get(tableName, key) ==
    /\ last' = [op |-> "get", table |-> tableName, key |-> key,
                ret |-> get(medium, tableName, key)]
    /\ UNCHANGED medium

GetAll(tableName) ==
    \E keys \in Orders(matchingKeys(medium, tableName)) :
        /\ last' = [op |-> "getAll", table |-> tableName,
                    ret |-> getAll(medium, tableName, keys)]
        /\ UNCHANGED medium

Filter(tableName, predicate) ==
    \E keys \in Orders(matchingKeys(medium, tableName)) :
        /\ last' = [op |-> "filter", table |-> tableName, predicate |-> predicate,
                    ret |-> filter(medium, tableName, keys, predicate)]
        /\ UNCHANGED medium

Remove(tableName, key) ==
    /\ medium' = remove(medium, tableName, key)
    /\ last' = [op |-> "remove", table |-> tableName, key |-> key]

---------------------------------------------------------------------------
(* The other users of the shared medium *)

\* what another party can put into an entry: the empty string and text
\* that is no envelope
ForeignTexts == { EmptyText, GarbageText }

\* another party writes an entry
ExternalWrite(sk, text) ==
    /\ Cardinality((DOMAIN medium) \cup {sk}) <= MaxEntries
    /\ medium' = setItem(medium, sk, text)
    /\ last' = [op |-> "external"]

\* another party changes a byte of a stored envelope's data
Tamper(sk) ==
    /\ sk \in DOMAIN medium
    /\ medium[sk].kind = "json"
    /\ medium[sk].data # Forged
    /\ medium' = [medium EXCEPT ![sk] = EnvelopeText(medium[sk].iv, Forged)]
    /\ last' = [op |-> "external"]

\* every call runs to its end before the next one starts
Next ==
    \/ \E t \in Tables, v \in Values, k \in KeyArgs :
          Set(t, v, k) /\ UNCHANGED <<multi, scan, passed>>
    \/ \E t \in Tables, k \in ReadKeys :
          Exists(t, k) /\ UNCHANGED <<multi, scan, passed>>
    \/ \E t \in Tables, k \in ReadKeys :
          Get(t, k) /\ UNCHANGED <<multi, scan, passed>>
    \/ \E t \in Tables :
          GetAll(t) /\ UNCHANGED <<multi, scan, passed>>
    \/ \E t \in Tables, p \in Predicates :
          Filter(t, p) /\ UNCHANGED <<multi, scan, passed>>
    \/ \E t \in Tables, k \in ReadKeys :
          Remove(t, k) /\ UNCHANGED <<multi, scan, passed>>
    \/ \E sk \in SKeys, text \in ForeignTexts :
          ExternalWrite(sk, text) /\ UNCHANGED <<multi, scan, passed>>
    \/ \E sk \in SKeys :
          Tamper(sk) /\ UNCHANGED <<multi, scan, passed>>

Spec == Init /\ [][Next]_vars

---------------------------------------------------------------------------
(* setMultiple: its set calls, each running from one await to the next *)

\* the most values one setMultiple is given
BatchSize == 2

\* the arrays of values a caller passes to setMultiple
Batches == UNION { [1..n -> Values \ {[title |-> NaN]}] : n \in 1..BatchSize }

\* what crypto.getRandomValues can return, where two encrypt calls are
\* compared
Nonces2 == {1, 2}

\* a set call that has run up to `await this.exists(tableName, finalKey)`:
\* found is what exists read from the medium; order and late are history:
\* the how-manieth write of the batch its write was, and whether setMultiple
\* had failed by then
SetCall(value, finalKey, found) ==
    [value |-> value, finalKey |-> finalKey, found |-> found, pc |-> "exists",
     iv |-> 0, text |-> NullItem, order |-> 0, late |-> FALSE]

\* the set calls of the batch that have written
Written(sets) == { j \in DOMAIN sets : sets[j].pc = "done" }

\* what earlier calls have left in the medium: nothing, or one record
StoredBefore ==
    { [sk \in {} |-> EmptyText] } \cup
    { setItem([sk \in {} |-> EmptyText], StorageKey(t, <<"u1">>),
              encrypt(JSONstringify([title |-> Str(<<"m">>)]), 1).text) : t \in Tables }

InitBatch ==
    /\ medium \in StoredBefore
    /\ last = [op |-> "init"]
    /\ multi = NoBatch
    /\ scan = NoScan
    /\ passed = {}

\* setMultiple(tableName, values): values.map calls set for every value, and
\* each call runs up to its first await; the key is omitted
SetMultiple(tableName, values) ==
    /\ multi = NoBatch
    /\ \E uuids \in [DOMAIN values -> UUIDs] :
          multi' = [status |-> "pending", table |-> tableName,
                    sets |-> [i \in DOMAIN values |->
                                SetCall(values[i], uuids[i],
                                        exists(medium, tableName, uuids[i]))]]
    /\ last' = [op |-> "setMultiple", table |-> tableName]
    /\ UNCHANGED <<medium, scan, passed>>

\* set call i resumes after `await this.exists(...)`: with the key taken
\* (and key == undefined) it starts over with a new random key, up to the
\* same await; otherwise it calls encrypt, which draws the nonce and
\* suspends in crypto.subtle.encrypt
SetAfterExists(i) ==
    /\ multi.status # "none"
    /\ i \in DOMAIN multi.sets
    /\ multi.sets[i].pc = "exists"
    /\ IF multi.sets[i].found
       THEN \E uuid \in UUIDs :
               multi' = [multi EXCEPT !.sets[i] =
                            SetCall(@.value, uuid, exists(medium, multi.table, uuid))]
       ELSE \E iv \in Nonces2 :
               multi' = [multi EXCEPT !.sets[i].pc = "encrypt", !.sets[i].iv = iv]
    /\ last' = [op |-> "resume"]
    /\ UNCHANGED <<medium, scan, passed>>

\* crypto.subtle.encrypt of set call i has finished: encrypt returns the
\* envelope text, or throws, and then set fails and with it Promise.all
\* and setMultiple
SetEncrypted(i) ==
    /\ multi.status # "none"
    /\ i \in DOMAIN multi.sets
    /\ multi.sets[i].pc = "encrypt"
    /\ LET encryptedValue == encrypt(JSONstringify(multi.sets[i].value), multi.sets[i].iv)
       IN  IF encryptedValue.ok
           THEN /\ multi' = [multi EXCEPT !.sets[i].pc = "write",
                                          !.sets[i].text = encryptedValue.text]
                /\ last' = [op |-> "resume"]
           ELSE /\ multi' = [multi EXCEPT !.sets[i].pc = "failed",
                                          !.status = "rejected"]
                /\ last' = [op |-> "set", table |-> multi.table, key |-> Undefined,
                            value |-> multi.sets[i].value, status |-> "error"]
    /\ UNCHANGED <<medium, scan, passed>>

\* set call i as it would be if a setMultiple that has failed cancelled the
\* set calls that have not written yet
SetWrite_cancelledOnFailure(i) ==
    /\ multi.status # "none"
    /\ i \in DOMAIN multi.sets
    /\ multi.sets[i].pc = "write"
    /\ IF multi.status = "rejected"
       THEN /\ medium' = medium
            /\ multi' = [multi EXCEPT !.sets[i].pc = "failed"]
            /\ last' = [op |-> "resume"]
       ELSE /\ medium' = setItem(medium, StorageKey(multi.table, multi.sets[i].finalKey),
                                 multi.sets[i].text)
            /\ multi' = [multi EXCEPT
                            !.sets[i].pc = "done",
                            !.sets[i].order = 1 + Cardinality(Written(multi.sets)),
                            !.status = IF Written(multi.sets) \cup {i} = DOMAIN multi.sets
                                       THEN "resolved" ELSE @]
            /\ last' = [op |-> "set", table |-> multi.table, key |-> Undefined,
                        value |-> multi.sets[i].value, status |-> "ok",
                        result |-> WithKey(multi.sets[i].value, multi.sets[i].finalKey)]
    /\ UNCHANGED <<scan, passed>>

\* set call i resumes after `await ...encrypt(...)`: localStorage.setItem,
\* and the call returns; when it is the last of the batch and none has
\* failed, Promise.all and setMultiple return too
SetWrite(i) ==
    /\ multi.status # "none"
    /\ i \in DOMAIN multi.sets
    /\ multi.sets[i].pc = "write"
    /\ medium' = setItem(medium, StorageKey(multi.table, multi.sets[i].finalKey),
                         multi.sets[i].text)
    /\ multi' = [multi EXCEPT
                    !.sets[i].pc = "done",
                    !.sets[i].order = 1 + Cardinality(Written(multi.sets)),
                    !.sets[i].late = (multi.status = "rejected"),
                    !.status = IF @ = "pending"
                                  /\ Written(multi.sets) \cup {i} = DOMAIN multi.sets
                               THEN "resolved" ELSE @]
    /\ last' = [op |-> "set", table |-> multi.table, key |-> Undefined,
                value |-> multi.sets[i].value, status |-> "ok",
                result |-> WithKey(multi.sets[i].value, multi.sets[i].finalKey)]
    /\ UNCHANGED <<scan, passed>>

NextBatch ==
    \/ \E t \in Tables, values \in Batches : SetMultiple(t, values)
    \/ \E i \in 1..BatchSize : SetAfterExists(i)
    \/ \E i \in 1..BatchSize : SetEncrypted(i)
    \/ \E i \in 1..BatchSize : SetWrite(i)

SpecBatch == InitBatch /\ [][NextBatch]_vars

---------------------------------------------------------------------------
(* Several stores on one medium *)

\* generateKeyFromSecret as it would be if the salt did not enter the key
generateKeyFromSecret_withoutSalt(secret, salt) == "PBKDF2(" \o secret \o ")"

\* generateKeyFromSecret(secret, salt): the AES-GCM key that PBKDF2 derives;
\* the same for the same secret and salt, another one for other ones
generateKeyFromSecret(secret, salt) == "PBKDF2(" \o secret \o "," \o salt \o ")"

\* createTypedSecureStorage(secret, salt, prefix): the store's fields
createTypedSecureStorage(secret, salt, prefix_) ==
    [prefix |-> IF prefix_ = Undefined THEN DefaultPrefix ELSE prefix_,
     encryptionKey |-> generateKeyFromSecret(secret, salt)]

\* the arguments the stores on the medium are built with: a store, one with
\* another secret, one with another salt, one with another prefix
Builds ==
    { <<"s1", "t1", Undefined>>, <<"s2", "t1", Undefined>>, <<"s1", "t2", Undefined>>,
      <<"s1", "t1", <<"@edb", "_", "a">>>> }

\* the table and the keys the callers of these stores use
SharedTables == { <<"a">> }
SharedKeys == { <<"u1">>, <<"a", "_", "u1">> }

StorageKeyOf(store, tableName, key) == store.prefix \o Sep \o tableName \o Sep \o key

TablePrefixOf(store, tableName) == store.prefix \o Sep \o tableName \o Sep

\* encrypt(data) of the store's encryption service
encryptBy(store, data, iv) ==
    IF TooLong(data) THEN [ok |-> FALSE]
    ELSE [ok |-> TRUE, text |-> EnvelopeText(iv, Ciphertext(store.encryptionKey, iv, data))]

\* decryptBy as it would be if the ciphertext were not authenticated
decryptBy_unauthenticated(store, encrypted) ==
    IF encrypted.kind # "json" THEN [ok |-> FALSE]
    ELSE [ok |-> TRUE, data |-> encrypted.data.pt]

\* decrypt(encrypted) of the store's encryption service
decryptBy(store, encrypted) ==
    IF encrypted.kind # "json" THEN [ok |-> FALSE]
    ELSE LET ct == encrypted.data
         IN  IF ct.k = store.encryptionKey /\ ct.n = encrypted.iv
             THEN [ok |-> TRUE, data |-> ct.pt]
             ELSE [ok |-> FALSE]

existsBy(store, m, tableName, key) == ~Falsy(getItem(m, StorageKeyOf(store, tableName, key)))

getBy(store, m, tableName, key) ==
    LET item == getItem(m, StorageKeyOf(store, tableName, key))
    IN  IF Falsy(item) THEN [status |-> "ok", result |-> JsNull]
        ELSE LET decryptedValue == decryptBy(store, item)
             IN  IF ~decryptedValue.ok THEN [status |-> "error"]
                 ELSE LET parsed == JSONparse(decryptedValue.data)
                      IN  IF ~parsed.ok THEN [status |-> "error"]
                          ELSE [status |-> "ok", result |-> parsed.value]

matchingKeysBy(store, m, tableName) ==
    { key \in DOMAIN m : startsWith(key, TablePrefixOf(store, tableName)) }

RECURSIVE getAllLoopBy(_, _, _, _, _)
getAllLoopBy(store, m, tableName, keys, results) ==
    IF keys = << >> THEN [status |-> "ok", result |-> results]
    ELSE LET key == Head(keys)
             item == getItem(m, key)
         IN  IF Falsy(item) THEN getAllLoopBy(store, m, tableName, Tail(keys), results)
             ELSE LET decryptedValue == decryptBy(store, item)
                  IN  IF ~decryptedValue.ok THEN [status |-> "error"]
                      ELSE LET parsed == JSONparse(decryptedValue.data)
                           IN  IF ~parsed.ok THEN [status |-> "error"]
                               ELSE getAllLoopBy(store, m, tableName, Tail(keys),
                                        Append(results,
                                               WithKey(parsed.value,
                                                       replace(key, TablePrefixOf(store, tableName)))))

getAllBy(store, m, tableName, keys) == getAllLoopBy(store, m, tableName, keys, << >>)

filterBy(store, m, tableName, keys, predicate) ==
    LET allItems == getAllBy(store, m, tableName, keys)
    IN  IF allItems.status # "ok" THEN allItems
        ELSE [status |-> "ok", result |-> SelectSeq2(allItems.result, predicate)]

removeBy(store, m, tableName, key) == removeItem(m, StorageKeyOf(store, tableName, key))

\* set(tableName, value, key) on the store built with the arguments b
StoreSet(b, tableName, value, key) ==
    \E uuid \in Draws(key), iv \in Nonces :
        LET store == createTypedSecureStorage(b[1], b[2], b[3])
            finalKey == finalKeyOf(key, uuid)
            encryptedValue == encryptBy(store, JSONstringify(value), iv)
            sk == StorageKeyOf(store, tableName, finalKey)
        IN  /\ ~(existsBy(store, medium, tableName, finalKey) /\ key = Undefined)
            /\ IF encryptedValue.ok
               THEN /\ Cardinality((DOMAIN medium) \cup {sk}) <= MaxEntries
                    /\ medium' = setItem(medium, sk, encryptedValue.text)
                    /\ last' = [op |-> "set", by |-> b, table |-> tableName, key |-> key,
                                value |-> value, status |-> "ok",
                                result |-> WithKey(value, finalKey)]
               ELSE /\ medium' = medium
                    /\ last' = [op |-> "set", by |-> b, table |-> tableName, key |-> key,
                                value |-> value, status |-> "error"]

StoreExists(b, tableName, key) ==
    /\ last' = [op |-> "exists", by |-> b, table |-> tableName, key |-> key,
                result |-> existsBy(createTypedSecureStorage(b[1], b[2], b[3]),
                                    medium, tableName, key)]
    /\ UNCHANGED medium

StoreGet(b, tableName, key) ==
    /\ last' = [op |-> "get", by |-> b, table |-> tableName, key |-> key,
                ret |-> getBy(createTypedSecureStorage(b[1], b[2], b[3]),
                              medium, tableName, key)]
    /\ UNCHANGED medium

StoreGetAll(b, tableName) ==
    \E keys \in Orders(matchingKeysBy(createTypedSecureStorage(b[1], b[2], b[3]),
                                      medium, tableName)) :
        /\ last' = [op |-> "getAll", by |-> b, table |-> tableName, listed |-> keys,
                    ret |-> getAllBy(createTypedSecureStorage(b[1], b[2], b[3]),
                                     medium, tableName, keys)]
        /\ UNCHANGED medium

StoreFilter(b, tableName, predicate) ==
    \E keys \in Orders(matchingKeysBy(createTypedSecureStorage(b[1], b[2], b[3]),
                                      medium, tableName)) :
        /\ last' = [op |-> "filter", by |-> b, table |-> tableName, listed |-> keys,
                    predicate |-> predicate,
                    ret |-> filterBy(createTypedSecureStorage(b[1], b[2], b[3]),
                                     medium, tableName, keys, predicate)]
        /\ UNCHANGED medium

StoreRemove(b, tableName, key) ==
    /\ medium' = removeBy(createTypedSecureStorage(b[1], b[2], b[3]), medium, tableName, key)
    /\ last' = [op |-> "remove", by |-> b, table |-> tableName, key |-> key]

NextStores ==
    \/ \E b \in Builds, t \in SharedTables, v \in Values, k \in SharedKeys :
          StoreSet(b, t, v, k) /\ UNCHANGED <<multi, scan, passed>>
    \/ \E b \in Builds, t \in SharedTables, k \in SharedKeys :
          StoreExists(b, t, k) /\ UNCHANGED <<multi, scan, passed>>
    \/ \E b \in Builds, t \in SharedTables, k \in SharedKeys :
          StoreGet(b, t, k) /\ UNCHANGED <<multi, scan, passed>>
    \/ \E b \in Builds, t \in SharedTables :
          StoreGetAll(b, t) /\ UNCHANGED <<multi, scan, passed>>
    \/ \E b \in Builds, t \in SharedTables, p \in Predicates :
          StoreFilter(b, t, p) /\ UNCHANGED <<multi, scan, passed>>
    \/ \E b \in Builds, t \in SharedTables, k \in SharedKeys :
          StoreRemove(b, t, k) /\ UNCHANGED <<multi, scan, passed>>

SpecStores == Init /\ [][NextStores]_vars

---------------------------------------------------------------------------
(* getAll, running from one await to the next, with set and remove calls   *)
(* in between                                                              *)

\* the table that is listed, and the values and keys of the set calls
ScanTables == { <<"a">> }
ScanValues == { [title |-> Str(<<"m">>)], [title |-> Str(<<"n">>)] }
ScanKeys == { Undefined, <<"b", "_", "u1">> }

\* the storage key whose entry another party changes meanwhile
ScanTampered == { StorageKey(<<"a">>, <<"u1">>) }

\* the entries of the medium, as pairs of storage key and text
Entries(m) == { <<sk, m[sk]>> : sk \in DOMAIN m }

\* the loop of getAll as it would be without `if (item)`
nextItem_withoutCheck(m, keys, i) == i

\* the loop of getAll from place i of the listing on: the first place whose
\* entry is there (`if (item)`), or one past the listing
nextItem(m, keys, i) ==
    LET there == { j \in i..Len(keys) : ~Falsy(getItem(m, keys[j])) }
    IN  IF there = {} THEN Len(keys) + 1
        ELSE CHOOSE j \in there : \A h \in there : j <= h

\* getAll runs on from the place after sc.at up to its next await, which is
\* in decrypt, or to its end
readOn(sc, m) ==
    LET i == nextItem(m, sc.keys, sc.at + 1)
    IN  IF i > Len(sc.keys)
        THEN [sc EXCEPT !.pc = "done", !.at = i, !.item = NullItem]
        ELSE [sc EXCEPT !.pc = "decrypt", !.at = i, !.item = getItem(m, sc.keys[i])]

\* the entries of the medium at the keys that were listed
Listed(keys, m) == { e \in Entries(m) : \E i \in 1..Len(keys) : keys[i] = e[1] }

\* history of the getAll in flight: the entries the medium has had at the
\* listed keys since the call started
Observe(sc, m) ==
    IF sc.pc = "decrypt" THEN [sc EXCEPT !.seen = @ \cup Listed(sc.keys, m)] ELSE sc

\* the getAll of the behaviour has not returned yet
Running == scan.pc \in {"none", "decrypt"}

\* getAll(tableName) is called: it lists the keys and runs up to its first
\* await; start and seen are history
GetAllStart(tableName) ==
    /\ scan = NoScan
    /\ \E keys \in Orders(matchingKeys(medium, tableName)) :
          scan' = readOn([pc |-> "list", table |-> tableName, keys |-> keys, at |-> 0,
                          item |-> NullItem, results |-> << >>,
                          start |-> DOMAIN medium, seen |-> Listed(keys, medium)], medium)
    /\ last' = [op |-> "resume"]
    /\ UNCHANGED <<medium, multi, passed>>

\* getAll resumes after `await ...decrypt(item)`: decrypt or JSON.parse
\* throws and getAll fails, or the record is pushed and the loop runs on
GetAllResume ==
    /\ scan.pc = "decrypt"
    /\ LET decryptedValue == decrypt(scan.item)
       IN  IF ~decryptedValue.ok THEN scan' = [scan EXCEPT !.pc = "failed"]
           ELSE LET parsed == JSONparse(decryptedValue.data)
                IN  IF ~parsed.ok THEN scan' = [scan EXCEPT !.pc = "failed"]
                    ELSE scan' = readOn(
                             [scan EXCEPT !.results =
                                 Append(@, WithKey(parsed.value,
                                                   replace(scan.keys[scan.at],
                                                           TablePrefix(scan.table))))],
                             medium)
    /\ last' = [op |-> "resume"]
    /\ UNCHANGED <<medium, multi, passed>>

\* one getAll, and the set and remove calls and the changes by others that
\* happen before it returns
NextScan ==
    \/ \E t \in ScanTables : GetAllStart(t)
    \/ GetAllResume
    \/ \E t \in ScanTables, v \in ScanValues, k \in ScanKeys :
          /\ Running
          /\ Set(t, v, k)
          /\ scan' = Observe(scan, medium')
          /\ UNCHANGED <<multi, passed>>
    \/ \E t \in ScanTables, k \in ReadKeys :
          /\ Running
          /\ Remove(t, k)
          /\ scan' = Observe(scan, medium')
          /\ UNCHANGED <<multi, passed>>
    \/ \E sk \in ScanTampered :
          /\ Running
          /\ Tamper(sk)
          /\ scan' = Observe(scan, medium')
          /\ UNCHANGED <<multi, passed>>

SpecScan == Init /\ [][NextScan]_vars

---------------------------------------------------------------------------
(* A party without the key that rewrites entries of the medium *)

\* the table, values and keys of the calls, and the storage keys the other
\* party writes to: no two of these (table, key) share a storage key
ReplayTables == { <<"a">> }
ReplayValues == { [title |-> Str(<<"m">>)], [title |-> Str(<<"n">>)] }
ReplayKeys == { Undefined, <<"u1">> }
ReplaySKeys == { StorageKey(t, k) : t \in ReplayTables, k \in UUIDs }

\* history: what set has stored, after the call l
Recorded(l) ==
    IF l.op = "set" /\ l.status = "ok"
    THEN passed \cup { <<l.table, l.result.key.s, l.value>> }
    ELSE passed

\* the other party copies the text of one entry to another storage key
Copy(from, to) ==
    /\ from \in DOMAIN medium
    /\ from # to
    /\ Cardinality((DOMAIN medium) \cup {to}) <= MaxEntries
    /\ medium' = setItem(medium, to, medium[from])
    /\ last' = [op |-> "external"]

\* the other party moves an entry to another storage key
Move(from, to) ==
    /\ from \in DOMAIN medium
    /\ from # to
    /\ medium' = removeItem(setItem(medium, to, medium[from]), from)
    /\ last' = [op |-> "external"]

NextReplay ==
    \/ \E t \in ReplayTables, v \in ReplayValues, k \in ReplayKeys :
          Set(t, v, k) /\ passed' = Recorded(last') /\ UNCHANGED <<multi, scan>>
    \/ \E t \in ReplayTables, k \in UUIDs :
          Get(t, k) /\ UNCHANGED <<multi, scan, passed>>
    \/ \E t \in ReplayTables, k \in UUIDs :
          Remove(t, k) /\ UNCHANGED <<multi, scan, passed>>
    \/ \E from, to \in ReplaySKeys :
          Copy(from, to) /\ UNCHANGED <<multi, scan, passed>>
    \/ \E from, to \in ReplaySKeys :
          Move(from, to) /\ UNCHANGED <<multi, scan, passed>>

SpecReplay == Init /\ [][NextReplay]_vars

---------------------------------------------------------------------------
(* What the calls are claimed to do *)

\* a value JSON has a notation for: none of its fields is NaN
IsJsonValue(v) == \A f \in DOMAIN v : v[f].t \in {"string", "null"}

\* get's answer for "no such record"
Absent == [status |-> "ok", result |-> JsNull]

SetCompleted(l) == l.op = "set" /\ l.status = "ok"

\* the record key a completed set returned
ReturnedKey(l) == l.result.key.s

\* the calls of the store, as opposed to the other users of the medium
StoreOps == {"set", "get", "exists", "getAll", "filter", "remove"}

\* C1, as stated: after a set that completed, a get of the returned key
\* returns the value that was set, whatever the value
C1_RoundTripAnyValue ==
    SetCompleted(last) =>
        get(medium, last.table, ReturnedKey(last)) = [status |-> "ok", result |-> last.value]

\* C1, amended: after a set that completed with a value JSON has a notation
\* for, a get of the returned key returns the value that was set
C1_RoundTrip ==
    (SetCompleted(last) /\ IsJsonValue(last.value)) =>
        get(medium, last.table, ReturnedKey(last)) = [status |-> "ok", result |-> last.value]

C1_Witness ==
    /\ SetCompleted(last)
    /\ last.key = Undefined
    /\ last.table = <<"a", "_", "b">>
    /\ IsJsonValue(last.value)
    /\ Cardinality(DOMAIN medium) = 2
    /\ get(medium, last.table, ReturnedKey(last)) = [status |-> "ok", result |-> last.value]

\* C2: a record just stored by set under one table is in no getAll of
\* another table, in whatever order the medium lists its keys
C2_NamespaceIsolation ==
    SetCompleted(last) =>
        \A B \in Tables \ {last.table} :
            \A keys \in Orders(matchingKeys(medium, B)) :
                LET r == getAll(medium, B, keys)
                IN  r.status = "ok" =>
                        \A i \in 1..Len(r.result) :
                            StorageKey(B, r.result[i].key.s)
                                # StorageKey(last.table, ReturnedKey(last))

\* C3: a set or a remove on (T, k) leaves what get and exists return for
\* every other (table, key) as it was
C3_Frame ==
    [][ (SetCompleted(last') \/ last'.op = "remove") =>
            LET k == IF last'.op = "set" THEN ReturnedKey(last') ELSE last'.key
            IN  \A t \in Tables, k2 \in ReadKeys :
                    <<t, k2>> # <<last'.table, k>> =>
                        /\ get(medium', t, k2) = get(medium, t, k2)
                        /\ exists(medium', t, k2) = exists(medium, t, k2) ]_vars

\* C4 (for values JSON has a notation for): a set with a key the caller
\* passed, whatever string it is, returns the value with that key, stores
\* it under the storage key of that key, and get and getAll find it there
\* once
C4_ExplicitUpsert ==
    (SetCompleted(last) /\ last.key # Undefined /\ IsJsonValue(last.value)) =>
        /\ last.result = WithKey(last.value, last.key)
        /\ StorageKey(last.table, last.key) \in DOMAIN medium
        /\ get(medium, last.table, last.key) = [status |-> "ok", result |-> last.value]
        /\ \A keys \in Orders(matchingKeys(medium, last.table)) :
              LET r == getAll(medium, last.table, keys)
                  hits == { i \in 1..Len(r.result) : r.result[i].key = Str(last.key) }
              IN  r.status = "ok" =>
                      /\ Cardinality(hits) = 1
                      /\ \A i \in hits : r.result[i] = WithKey(last.value, last.key)

\* C5: a set without a key returns a key whose storage key had no entry
\* when the call ran, changes no entry that was there, and its record can
\* be read back under that key
C5_OmittedKeyUnique ==
    [][ (SetCompleted(last') /\ last'.key = Undefined) =>
            LET sk == StorageKey(last'.table, ReturnedKey(last'))
            IN  /\ sk \notin DOMAIN medium
                /\ \A x \in DOMAIN medium : x \in DOMAIN medium' /\ medium'[x] = medium[x]
                /\ IsJsonValue(last'.value) =>
                       get(medium', last'.table, ReturnedKey(last'))
                           = [status |-> "ok", result |-> last'.value] ]_vars

\* C6: right after remove(T, k), get(T, k) is absent and exists(T, k) is
\* false; a remove of a key without an entry changes nothing; and the call
\* of the store that follows the remove, unless it is a set on (T, k),
\* leaves get(T, k) absent and exists(T, k) false
C6_Removal ==
    [][ /\ last'.op = "remove" =>
              /\ get(medium', last'.table, last'.key) = Absent
              /\ ~exists(medium', last'.table, last'.key)
              /\ StorageKey(last'.table, last'.key) \notin DOMAIN medium => medium' = medium
        /\ ( /\ last.op = "remove"
             /\ last'.op \in StoreOps
             /\ ~( /\ SetCompleted(last')
                   /\ last'.table = last.table
                   /\ ReturnedKey(last') = last.key ) ) =>
              /\ get(medium', last.table, last.key) = Absent
              /\ ~exists(medium', last.table, last.key) ]_vars

\* C7: get returns absent exactly when the medium has no entry at the
\* storage key, and fails when the entry there cannot be decrypted
C7_GetNotFound ==
    last.op = "get" =>
        LET sk == StorageKey(last.table, last.key)
        IN  /\ last.ret = Absent <=> sk \notin DOMAIN medium
            /\ (sk \in DOMAIN medium /\ ~decrypt(medium[sk]).ok) => last.ret.status = "error"

\* C8: exists returns true exactly when the medium has an entry at the
\* storage key, whatever its text
C8_ExistsIffEntry ==
    last.op = "exists" =>
        (last.result <=> StorageKey(last.table, last.key) \in DOMAIN medium)

\* C9: getAll and filter fail when an entry whose key matches the table's
\* prefix cannot be decrypted
C9_AllOrNothing ==
    (last.op \in {"getAll", "filter"}
        /\ \E sk \in matchingKeys(medium, last.table) : ~decrypt(medium[sk]).ok) =>
        last.ret.status = "error"

\* C10: a set either completes, and then the medium differs from the one
\* before in holding the envelope of the serialized value, made under the
\* store's key, at the storage key of the returned key; or it fails, and
\* then the medium is the one before
C10_SetAtomic ==
    [][ last'.op = "set" =>
            \/ /\ last'.status = "ok"
               /\ \E iv \in Nonces :
                     medium' = setItem(medium,
                                       StorageKey(last'.table, ReturnedKey(last')),
                                       EnvelopeText(iv, Ciphertext(encryptionKey, iv,
                                                        JSONstringify(last'.value))))
            \/ /\ last'.status = "error"
               /\ medium' = medium ]_vars

C10_Witness ==
    /\ last.op = "set"
    /\ last.status = "error"
    /\ last.key = Undefined
    /\ Cardinality(DOMAIN medium) = 1

\* the set calls of the batch in flight
SetCalls == IF multi.status = "none" THEN {} ELSE DOMAIN multi.sets

\* set call i of the batch has something left to do
Suspended(i) == multi.sets[i].pc \in {"exists", "encrypt", "write"}

\* C11: when a set call of a setMultiple fails, setMultiple fails; the
\* failure changes no entry of the medium and no later step removes one;
\* every set call that has not failed or finished can take its next step,
\* also after the failure, so the only calls that end failed are those
\* whose own value cannot be encrypted; and the record of a call that has
\* finished is in the medium at its key, unless a call of the batch with
\* the same key wrote there after it
C11_NoBatchAtomicity ==
    /\ [](\A i \in SetCalls :
            /\ multi.sets[i].pc = "failed" =>
                  /\ multi.status = "rejected"
                  /\ TooLong(JSONstringify(multi.sets[i].value))
            /\ Suspended(i) =>
                  ENABLED (SetAfterExists(i) \/ SetEncrypted(i) \/ SetWrite(i))
            /\ multi.sets[i].pc = "done" =>
                  \E j \in Written(multi.sets) :
                      /\ multi.sets[j].finalKey = multi.sets[i].finalKey
                      /\ multi.sets[j].order >= multi.sets[i].order
                      /\ getItem(medium, StorageKey(multi.table, multi.sets[i].finalKey))
                            = multi.sets[j].text)
    /\ [][ /\ (multi.status # "rejected" /\ multi'.status = "rejected") => medium' = medium
           /\ multi.status = "rejected" =>
                 \A sk \in DOMAIN medium : sk \in DOMAIN medium' ]_vars

\* setMultiple has failed, and a set call of it wrote its record after that
C11_Witness ==
    /\ multi.status = "rejected"
    /\ \E i, j \in SetCalls :
          /\ multi.sets[j].pc = "failed"
          /\ multi.sets[i].pc = "done"
          /\ multi.sets[i].late
          /\ get(medium, multi.table, multi.sets[i].finalKey)
                = [status |-> "ok", result |-> multi.sets[i].value]

\* the store built with the arguments b
Built(b) == createTypedSecureStorage(b[1], b[2], b[3])

\* the value as JSON carries it: the value itself when JSON has a notation
\* for it (C1)
AsStored(value) == JSONparse(JSONstringify(value)).value

Changed == { sk \in DOMAIN medium' : sk \notin DOMAIN medium \/ medium'[sk] # medium[sk] }

\* C13: every entry that a step of the store writes or changes is written
\* by a set that completes, and holds an envelope that decrypts under the
\* store's key to the serialized value of that set; a set that fails and
\* the other calls write nothing
C13_NoPlaintextAtRest ==
    [][ last'.op # "external" =>
            \A sk \in Changed :
                /\ SetCompleted(last')
                /\ sk = StorageKey(last'.table, ReturnedKey(last'))
                /\ medium'[sk].kind = "json"
                /\ medium'[sk].data.k = encryptionKey
                /\ decrypt(medium'[sk]) = [ok |-> TRUE, data |-> JSONstringify(last'.value)] ]_vars

\* a set with a key has completed next to an entry that is no envelope
C13_Witness ==
    /\ SetCompleted(last)
    /\ last.key = <<"u1">>
    /\ \E sk \in DOMAIN medium : medium[sk] = GarbageText
    /\ decrypt(medium[StorageKey(last.table, <<"u1">>)])
          = [ok |-> TRUE, data |-> JSONstringify(last.value)]

\* the medium keys that the call l of a store wrote, removed or read
Touched(l) ==
    CASE l.op \in {"get", "exists", "remove"} ->
             { StorageKeyOf(Built(l.by), l.table, l.key) }
      [] l.op = "set" ->
             { StorageKeyOf(Built(l.by), l.table,
                            IF l.status = "ok" THEN ReturnedKey(l) ELSE l.key) }
      [] l.op \in {"getAll", "filter"} ->
             { l.listed[i] : i \in 1..Len(l.listed) }
      [] OTHER -> {}

\* C14: every medium key that a call of a store writes, removes or reads
\* begins with the prefix of that store and the separator; and the entry
\* that a store has just written is not written, removed or read by the
\* call that a store with another prefix makes next
C14_PrefixConfinement ==
    [][ /\ \A sk \in Touched(last') :
              startsWith(sk, Built(last'.by).prefix \o Sep)
        /\ (SetCompleted(last) /\ Built(last'.by).prefix # Built(last.by).prefix) =>
              StorageKeyOf(Built(last.by), last.table, ReturnedKey(last))
                  \notin Touched(last') ]_vars

\* set call i of the batch has its envelope
Enveloped(i) == multi.sets[i].pc \in {"write", "done"}

\* C15, as stated: no two encrypt calls of the batch use the same nonce,
\* and two calls with the same plaintext have different envelopes
C15_NonceUniqueness ==
    \A i, j \in SetCalls :
        (i # j /\ Enveloped(i) /\ Enveloped(j)) =>
            /\ multi.sets[i].iv # multi.sets[j].iv
            /\ multi.sets[i].text # multi.sets[j].text

\* C15, amended: the envelope of every encrypt call carries the nonce that
\* the call drew and a ciphertext made with it, and two calls of the batch
\* that drew different nonces have different envelopes, also for the same
\* plaintext
C15_NonceDrawn ==
    \A i, j \in SetCalls :
        (i # j /\ Enveloped(i) /\ Enveloped(j)) =>
            /\ multi.sets[i].text.iv = multi.sets[i].iv
            /\ multi.sets[i].text.data.n = multi.sets[i].iv
            /\ multi.sets[i].iv # multi.sets[j].iv =>
                  /\ multi.sets[i].text # multi.sets[j].text
                  /\ multi.sets[i].text.data # multi.sets[j].text.data

\* two set calls of a batch have encrypted the same value with different
\* nonces, and both have written
C15_Witness ==
    /\ SetCalls = {1, 2}
    /\ multi.sets[1].pc = "done"
    /\ multi.sets[2].pc = "done"
    /\ multi.sets[1].value = multi.sets[2].value
    /\ multi.sets[1].iv # multi.sets[2].iv
    /\ multi.sets[1].text # multi.sets[2].text

\* C16: a set call goes from its existence check to encrypt, from encrypt
\* to its write, and from the write to its end, and changes the medium in
\* the write only; a call whose check found no entry can always go on, so
\* two calls of a batch that drew the same key and both found no entry both
\* complete with that key; and then the entry at that key is the envelope
\* of the one among them that wrote last, and get returns that call's value
C16_LastWriterWins ==
    /\ [][ \A i \in SetCalls :
              /\ i \in DOMAIN multi'.sets
              /\ <<multi.sets[i].pc, multi'.sets[i].pc>> \in
                    { <<"exists", "exists">>, <<"exists", "encrypt">>,
                      <<"encrypt", "encrypt">>, <<"encrypt", "write">>,
                      <<"encrypt", "failed">>, <<"write", "write">>,
                      <<"write", "done">>, <<"done", "done">>, <<"failed", "failed">> }
              /\ (multi.sets[i].pc = "exists" /\ multi'.sets[i].pc = "encrypt") =>
                    ~multi.sets[i].found
              /\ medium' # medium =>
                    \E j \in SetCalls : multi.sets[j].pc = "write" /\ multi'.sets[j].pc = "done"
         ]_vars
    /\ [](\A i, j \in SetCalls :
            /\ (multi.sets[i].pc = "write") => ENABLED SetWrite(i)
            /\ ( /\ multi.sets[i].pc = "done"
                 /\ multi.sets[j].pc = "done"
                 /\ multi.sets[i].finalKey = multi.sets[j].finalKey
                 /\ \A k \in Written(multi.sets) :
                       multi.sets[k].finalKey = multi.sets[i].finalKey =>
                           multi.sets[i].order >= multi.sets[k].order ) =>
                  /\ getItem(medium, StorageKey(multi.table, multi.sets[j].finalKey))
                        = multi.sets[i].text
                  /\ get(medium, multi.table, multi.sets[j].finalKey)
                        = [status |-> "ok", result |-> AsStored(multi.sets[i].value)])

\* two set calls of a batch drew the same key, found no entry, and have
\* both written: the first call of the batch wrote last
C16_Witness ==
    /\ SetCalls = {1, 2}
    /\ multi.status = "resolved"
    /\ multi.sets[1].finalKey = multi.sets[2].finalKey
    /\ ~multi.sets[1].found
    /\ ~multi.sets[2].found
    /\ multi.sets[1].value # multi.sets[2].value
    /\ multi.sets[1].order = 2
    /\ Cardinality(DOMAIN medium) = 1
    /\ get(medium, multi.table, multi.sets[2].finalKey)
          = [status |-> "ok", result |-> multi.sets[1].value]

\* the places in the result of a getAll of table B whose record was read
\* from the storage key sk
ReadFrom(result, B, sk) ==
    { i \in 1..Len(result) : StorageKey(B, result[i].key.s) = sk }

\* C17: a getAll(T) that returns has one record for every key of T that get
\* finds a value under, and for every record r of it get(T, r.key) returns
\* r without its key; when the call before it was a set, it has the record
\* of that set once if the set was on T and not at all if the set was on
\* another table; and filter returns the records of getAll that satisfy
\* the predicate
C17_GetAllAgreesWithGet ==
    [][ /\ (last'.op = "getAll" /\ last'.ret.status = "ok") =>
              LET result == last'.ret.result
                  T == last'.table
              IN  /\ \A i, j \in 1..Len(result) : result[i].key = result[j].key => i = j
                  /\ \A i \in 1..Len(result) :
                        LET g == get(medium, T, result[i].key.s)
                        IN  /\ g.status = "ok"
                            /\ g.result # JsNull
                            /\ result[i] = WithKey(g.result, result[i].key.s)
                  /\ \A k \in ReadKeys :
                        get(medium, T, k) \notin {Absent, [status |-> "error"]} =>
                            \E i \in 1..Len(result) : result[i].key = Str(k)
                  /\ SetCompleted(last) =>
                        LET hits == ReadFrom(result, T,
                                             StorageKey(last.table, ReturnedKey(last)))
                        IN  IF last.table = T
                            THEN /\ Cardinality(hits) = 1
                                 /\ \A i \in hits :
                                       result[i] = WithKey(AsStored(last.value),
                                                           ReturnedKey(last))
                            ELSE hits = {}
        /\ last'.op = "filter" =>
              \E keys \in Orders(matchingKeys(medium, last'.table)) :
                  LET all == getAll(medium, last'.table, keys)
                  IN  IF all.status # "ok" THEN last'.ret = all
                      ELSE /\ last'.ret.status = "ok"
                           /\ \A r \in { all.result[i] : i \in 1..Len(all.result) } :
                                 applyPredicate(last'.predicate, r) <=>
                                     \E i \in 1..Len(last'.ret.result) :
                                         last'.ret.result[i] = r
                           /\ \A i \in 1..Len(last'.ret.result) :
                                 \E j \in 1..Len(all.result) :
                                     last'.ret.result[i] = all.result[j] ]_vars

C19_EnvelopeBinding ==
    (last.op = "get" /\ last.ret.status = "ok" /\ last.ret.result # JsNull) =>
        \E p \in passed :
            /\ p[1] = last.table
            /\ p[2] = last.key
            /\ AsStored(p[3]) = last.ret.result

ReadOps == { "exists", "get", "getAll", "filter" }

\* C20: a step of exists, get, getAll or filter leaves every entry of the
\* medium as it was, whether the call returns a result, returns absent or
\* fails
C20_ReadOnly == [][ last'.op \in ReadOps => medium' = medium ]_vars

\* a get has failed on an entry it cannot decrypt, and the entry is there
C20_Witness ==
    /\ last.op = "get"
    /\ last.ret.status = "error"
    /\ StorageKey(last.table, last.key) \in DOMAIN medium

====
